---- MODULE Spec2Model ----
(***************************************************************************)
(* QDirStat main window (src/src/MainWindow.cpp): the scan-session         *)
(* lifecycle controller.                                                   *)
(*                                                                         *)
(* The state is grouped by the object that owns it:                        *)
(*   mw    MainWindow's own fields (_updateTimer, _treeExpandTimer,        *)
(*         _futureSelection, _enableDirPermissionsWarning, ...) and the    *)
(*         enabled flags of its QActions;                                  *)
(*   view  the DirTreeView's expansion state;                              *)
(*   sel   the SelectionModel (current item, current branch, selection);   *)
(*   tree  the DirTree engine (busy flag, url, items, requests);           *)
(*   hist  the HistoryButtons' stack of visited locations;                 *)
(*   obs   observations of the last step (which notification handler ran,  *)
(*         the state on entry to and on return from a completion handler). *)
(*                                                                         *)
(* Handlers are operators from state records to state records, so that a   *)
(* handler that calls another one (openDir -> sendFinished ->               *)
(* readingFinished -> idleDisplay -> applyFutureSelection) is the          *)
(* composition the code executes.  Fields keep the source's names without  *)
(* the leading underscore.                                                 *)
(***************************************************************************)
EXTENDS Naturals, FiniteSets, Sequences, TLC

VARIABLES mw, view, sel, tree, hist, obs

vars == <<mw, view, sel, tree, hist, obs>>

None == "none"

(***************************************************************************)
(* The tree that a scan can find: the toplevel directory and below it a    *)
(* directory that is a mount point.  Which of them exist changes from scan *)
(* to scan.  An item is known by its URL: the same name in two scans is    *)
(* the same URL.                                                           *)
(***************************************************************************)
Items == {"top", "mnt"}

\* The items of a tree that was read completely: besides the items above, an
\* excluded directory, a mount point that is excluded, a plain file and the
\* pseudo directory that collects the files of the toplevel directory.  They
\* are gone once their parent is read again.
AllItems == Items \cup {"excl", "exmnt", "file", "dot"}

\* The highest level of the "expand tree to level n" menu that is modelled
\* (the program has actionExpandTreeLevel0 .. actionExpandTreeLevel9).
MaxLevel == 1

Levels == 0..MaxLevel

parent(i) == IF i = "top" THEN None ELSE "top"

\* An item together with everything below it.
Subtree(i) == IF i = "top" THEN AllItems ELSE {i}

\* FileInfo::treeLevel(), isDir(), isMountPoint(), isExcluded(), isPseudoDir()
treeLevel(i) == IF i = "top" THEN 1 ELSE 2
isDir(i) == i \in {"top", "mnt", "excl", "exmnt"}
isMountPoint(i) == i \in {"mnt", "exmnt"}
isExcluded(i) == i \in {"excl", "exmnt"}
isPseudoDir(i) == i = "dot"

\* DirTree::firstToplevel()
firstToplevel(s) == IF "top" \in s.tree.items THEN "top" ELSE None

\* PkgFilter::isPkgUrl( url )
isPkgUrl(url) == url = "pkg"

\* FileInfo::isPkgInfo(): in a package view the toplevel item is a PkgInfo.
isPkgInfo(s, i) == i = "top" /\ isPkgUrl(s.tree.url)

\* FileInfoSet::first(): 0 for an empty set.
first(S) == IF S = {} THEN None ELSE CHOOSE x \in S : TRUE

(***************************************************************************)
(* MainWindow::MainWindow                                                  *)
(***************************************************************************)
\* A constructor that leaves the root fallback of _futureSelection switched on.
useRootFallbackLeftOn == TRUE

\* _futureSelection.setUseRootFallback( false )
useRootFallback == FALSE

AllDisabled ==
    [ stopReading |-> FALSE, refreshAll |-> FALSE, askReadCache |-> FALSE,
      askWriteCache |-> FALSE, copyPathToClipboard |-> FALSE, goUp |-> FALSE,
      goToToplevel |-> FALSE, moveToTrash |-> FALSE, refreshSelected |-> FALSE,
      continueReadingAtMountPoint |-> FALSE, readExcludedDirectory |-> FALSE,
      fileSizeStats |-> FALSE, fileTypeStats |-> FALSE, fileAgeStats |-> FALSE ]

(***************************************************************************)
(* MainWindow::updateActions                                               *)
(***************************************************************************)
\* The enabled state of each action for a tree that is or is not reading and
\* for a selection of the SelectionModel (lines 465 - 496).
enabledActions(s, reading, selection) ==
    LET currentItem   == selection.currentItem
        ftl           == firstToplevel(s)
        pkgView       == ftl # None /\ isPkgInfo(s, ftl)
        selectedItems == selection.selectedItems
        selItem       == first(selectedItems)
        selSize       == Cardinality(selectedItems)
        oneDirSelected    == selSize = 1 /\ selItem # None /\ isDir(selItem)
                                /\ ~isPkgInfo(s, selItem)
        pseudoDirSelected == \E i \in selectedItems : isPseudoDir(i)
        pkgSelected       == \E i \in selectedItems : isPkgInfo(s, i)
        nothingOrOneDir   == selectedItems = {} \/ oneDirSelected
    IN  [ stopReading   |-> reading,
          refreshAll    |-> ~reading,
          askReadCache  |-> ~reading,
          askWriteCache |-> ~reading,
          copyPathToClipboard |-> currentItem # None,
          goUp          |-> currentItem # None /\ treeLevel(currentItem) > 1,
          goToToplevel  |-> ftl # None /\ (currentItem = None \/ treeLevel(currentItem) > 1),
          moveToTrash   |-> selItem # None /\ ~pseudoDirSelected /\ ~pkgSelected /\ ~reading,
          refreshSelected |-> selSize = 1 /\ ~isExcluded(selItem)
                                /\ ~isMountPoint(selItem) /\ ~pkgView,
          continueReadingAtMountPoint |-> oneDirSelected /\ isMountPoint(selItem),
          readExcludedDirectory       |-> oneDirSelected /\ isExcluded(selItem),
          fileSizeStats |-> ~reading /\ nothingOrOneDir,
          fileTypeStats |-> ~reading /\ nothingOrOneDir,
          fileAgeStats  |-> ~reading /\ nothingOrOneDir ]

\* An updateActions that enables Refresh Selected for any one selected item.
updateActionsRefreshesAny(s) ==
    [s EXCEPT !.mw.enabled =
        [enabledActions(s, s.tree.isBusy, s.sel) EXCEPT
            !.refreshSelected = Cardinality(s.sel.selectedItems) = 1]]

\* An updateActions that takes the tree for idle whatever it is doing.
updateActionsIgnoresReading(s) ==
    [s EXCEPT !.mw.enabled = enabledActions(s, FALSE, s.sel)]

\* An updateActions that looks at the first selected item only.
updateActionsFirstSelected(s) ==
    [s EXCEPT !.mw.enabled =
        enabledActions(s, s.tree.isBusy,
                       [s.sel EXCEPT !.selectedItems = IF @ = {} THEN {} ELSE {first(@)}])]

\* An updateActions that does not find the current item.
updateActionsNoCurrentItem(s) ==
    [s EXCEPT !.mw.enabled =
        enabledActions(s, s.tree.isBusy, [s.sel EXCEPT !.currentItem = None])]

\* An updateActions that leaves an action alone that is enabled already.
updateActionsKeepsEnabled(s) ==
    [s EXCEPT !.mw.enabled =
        [a \in DOMAIN AllDisabled |->
            s.mw.enabled[a] \/ enabledActions(s, s.tree.isBusy, s.sel)[a]]]

updateActions(s) ==
    [s EXCEPT !.mw.enabled = enabledActions(s, s.tree.isBusy, s.sel)]

\* MainWindow::showTreemapView (actionShowTreemap stays checked)
showTreemapView(s) == [s EXCEPT !.mw.treemapEnabled = TRUE]

\* MainWindow::showSummary: it shows the current item in the status bar, which
\* is not among the session's messages that obs.shown records.
showSummary(s) ==
    s

(***************************************************************************)
(* MainWindow::expandTreeToLevel                                           *)
(***************************************************************************)
expandTreeToLevel(s, level) ==
    [s EXCEPT !.view = [level |-> level, expanded |-> {}]]

(***************************************************************************)
(* MainWindow::busyDisplay                                                 *)
(***************************************************************************)
\* A busyDisplay that arms the settle-timer whatever the URL and the branch.
busyDisplayAlwaysArms(s) ==
    LET s1 == updateActions([s EXCEPT !.mw.treemapEnabled = FALSE])
    IN  [s1 EXCEPT !.mw.updateTimer = TRUE, !.mw.treeExpandTimer = TRUE]

busyDisplay(s) ==
    LET s1 == updateActions([s EXCEPT !.mw.treemapEnabled = FALSE])
        s2 == [s1 EXCEPT !.mw.updateTimer = TRUE]
    IN  IF ~isPkgUrl(s2.tree.url) /\ s2.sel.currentBranch = None
        THEN [s2 EXCEPT !.mw.treeExpandTimer = TRUE]
        ELSE s2

(***************************************************************************)
(* Observations of the last step.  Begin resets them when a handler is     *)
(* entered from the event loop; the handlers fill them in as they run.     *)
(*   slot            the slot that the event loop invoked, for the two     *)
(*                   that may leave no other trace: stopReading and the    *)
(*                   settle-timer's timeout;                               *)
(*   notified        the engine notification handlers that ran;            *)
(*   log             in order: "failed" for every open the engine refused, *)
(*                   "asked" for every "open directory" dialog shown;      *)
(*   shown           the session's messages shown in the status bar;        *)
(*   completion      the state on entry to and on return from the last     *)
(*                   readingFinished / readingAborted of the step, and     *)
(*                   whether a command forced it with sendFinished();      *)
(*   requestedBy     the command that asked the engine to start a scan;    *)
(*   entryBusy       that command was entered while the session was busy   *)
(*                   (the ticker running and the engine busy);             *)
(*   fsAge           (kept between steps) the number of completions,       *)
(*                   announced by the engine at the end of a scan, that    *)
(*                   the pending future selection has survived, at most 1; *)
(*   fsUrl           (kept between steps) the URL the tree had when the    *)
(*                   pending future selection was set.                     *)
(***************************************************************************)
Snap(s) ==
    [ busy     |-> s.mw.updateTimer,
      timer    |-> s.mw.treeExpandTimer,
      fs       |-> s.mw.futureSelection,
      fsAge    |-> s.obs.fsAge,
      fsUrl    |-> s.obs.fsUrl,
      url      |-> s.tree.url,
      located  |-> s.mw.futureSelection \in s.tree.items,
      branch   |-> s.sel.currentBranch,
      item     |-> s.sel.currentItem,
      selected |-> s.sel.selectedItems,
      view     |-> s.view,
      panel    |-> s.mw.dirPermissionsWarning ]

NoCompletion == [kind |-> None]

Begin(s) ==
    [s EXCEPT !.obs = [ slot           |-> None,
                        pruned         |-> FALSE,
                        notified       |-> {},
                        log            |-> <<>>,
                        shown          |-> {},
                        completion     |-> NoCompletion,
                        requestedBy    |-> None,
                        entryBusy      |-> s.mw.updateTimer /\ s.tree.isBusy,
                        fsAge          |-> s.obs.fsAge,
                        fsUrl          |-> s.obs.fsUrl ]]

(***************************************************************************)
(* SelectionModel and Subtree (the class of _futureSelection): their code  *)
(* is not part of the source at hand; they are modelled from the           *)
(* specification's data model.                                             *)
(***************************************************************************)
\* The SelectionModel's currentItemChanged() and selectionChanged() signals:
\* connectSignals() connects them to updateActions(), selectionChanged() and
\* currentItemChanged(), which both call showSummary().
selectionSignals(s) == updateActions(showSummary(s))

(***************************************************************************)
(* HistoryButtons: its code is not part of the source at hand; it is       *)
(* modelled from the specification's HistoryStack, a sequence of locations *)
(* with a cursor.  A step of the session keeps the newest MaxHistory       *)
(* entries, a step of the navigation the newest MaxStack.                  *)
(***************************************************************************)
MaxHistory == 1
MaxStack == 4

NoHistory == [entries |-> <<>>, cursor |-> 0]

\* HistoryButtons::clearHistory
clearHistory(s) == [s EXCEPT !.hist = NoHistory]

\* HistoryButtons::canGoBack, canGoForward
canGoBack(s) == s.hist.cursor > 1
canGoForward(s) == s.hist.cursor < Len(s.hist.entries)

\* An addToHistory that inserts the location after the cursor and keeps the
\* entries that follow.
addToHistoryKeepsForward(s, i) ==
    IF i = None THEN s
    ELSE [s EXCEPT !.hist =
            [entries |-> SubSeq(@.entries, 1, @.cursor) \o <<i>>
                           \o SubSeq(@.entries, @.cursor + 1, Len(@.entries)),
             cursor  |-> @.cursor + 1]]

\* HistoryButtons::addToHistory( FileInfo * ): everything after the cursor is
\* discarded and the new location is appended.
addToHistory(s, i) ==
    IF i = None THEN s
    ELSE LET kept == SubSeq(s.hist.entries, 1, s.hist.cursor) \o <<i>>
         IN  [s EXCEPT !.hist = [entries |-> kept, cursor |-> Len(kept)],
                       !.obs.pruned = @ \/ canGoForward(s)]

\* The newest n entries of a history h.
newest(h, n) ==
    LET drop == IF Len(h.entries) > n THEN Len(h.entries) - n ELSE 0
    IN  [entries |-> SubSeq(h.entries, drop + 1, Len(h.entries)),
         cursor  |-> IF h.cursor > drop THEN h.cursor - drop ELSE 0]

\* SelectionModel::setCurrentItem( item, select = true ): currentItemChanged()
\* is also connected to HistoryButtons::addToHistory.
setCurrentItem(s, i) ==
    LET s1 == selectionSignals([s EXCEPT !.sel.currentItem = i,
                                         !.sel.selectedItems = {i}])
    IN  IF i # s.sel.currentItem THEN addToHistory(s1, i) ELSE s1

\* SelectionModel::setCurrentBranch( item ): the item becomes the current
\* branch and the current item, and it is selected.
setCurrentBranch(s, i) == setCurrentItem([s EXCEPT !.sel.currentBranch = i], i)

\* Subtree::isEmpty
isEmpty(s) == s.mw.futureSelection = None

\* Subtree::set: remembers the item by its URL, not by its pointer.
futureSelectionSet(s, i) ==
    [s EXCEPT !.mw.futureSelection = i, !.obs.fsAge = 0, !.obs.fsUrl = s.tree.url]

\* Subtree::clear
futureSelectionClear(s) ==
    [s EXCEPT !.mw.futureSelection = None, !.obs.fsAge = 0, !.obs.fsUrl = ""]

\* Subtree::subtree: locate the remembered URL in the tree as it is now; if
\* that fails, the toplevel item with useRootFallback, else nothing.
subtree(s) ==
    IF s.mw.futureSelection = None THEN None
    ELSE IF s.mw.futureSelection \in s.tree.items THEN s.mw.futureSelection
    ELSE IF useRootFallback THEN firstToplevel(s)
    ELSE None

\* An applyFutureSelection that forgets to expand a mount point.
applyFutureSelectionNoExpand(s) ==
    LET item == subtree(s)
    IN  IF item # None
        THEN setCurrentBranch(
                 futureSelectionClear([s EXCEPT !.mw.treeExpandTimer = FALSE]), item)
        ELSE s

(***************************************************************************)
(* MainWindow::applyFutureSelection                                        *)
(***************************************************************************)
applyFutureSelection(s) ==
    LET item == subtree(s)
    IN  IF item # None
        THEN LET s1 == [s EXCEPT !.mw.treeExpandTimer = FALSE]
                 s2 == futureSelectionClear(s1)
                 s3 == setCurrentBranch(s2, item)
             IN  IF isMountPoint(item)
                 THEN [s3 EXCEPT !.view.expanded = @ \cup {item}]
                 ELSE s3
        ELSE s

\* An idleDisplay that expands to level 1 whenever no future selection is
\* pending, whether or not a current branch is set.
idleDisplayExpandsAlways(s) ==
    LET s2 == [updateActions(s) EXCEPT !.mw.updateTimer = FALSE]
        s3 == IF ~isEmpty(s2)
              THEN applyFutureSelection([s2 EXCEPT !.mw.treeExpandTimer = FALSE])
              ELSE expandTreeToLevel(s2, 1)
    IN  showTreemapView(s3)

\* An idleDisplay that leaves the tree as it is when there is no current branch.
idleDisplayNeverExpands(s) ==
    LET s2 == [updateActions(s) EXCEPT !.mw.updateTimer = FALSE]
        s3 == IF ~isEmpty(s2)
              THEN applyFutureSelection([s2 EXCEPT !.mw.treeExpandTimer = FALSE])
              ELSE s2
    IN  showTreemapView(s3)

(***************************************************************************)
(* MainWindow::idleDisplay                                                 *)
(***************************************************************************)
idleDisplay(s) ==
    LET s1 == updateActions(s)
        s2 == [s1 EXCEPT !.mw.updateTimer = FALSE]
        s3 == IF ~isEmpty(s2)
              THEN applyFutureSelection([s2 EXCEPT !.mw.treeExpandTimer = FALSE])
              ELSE IF s2.sel.currentBranch = None
              THEN expandTreeToLevel(s2, 1)
              ELSE s2
    IN  showTreemapView(s3)

(***************************************************************************)
(* MainWindow::showDirPermissionsWarning                                   *)
(***************************************************************************)
\* A showDirPermissionsWarning that leaves the warning armed.
showDirPermissionsWarningStaysArmed(s) ==
    IF s.mw.dirPermissionsWarning \/ ~s.mw.enableDirPermissionsWarning
    THEN s
    ELSE [s EXCEPT !.mw.dirPermissionsWarning = TRUE]

showDirPermissionsWarning(s) ==
    IF s.mw.dirPermissionsWarning \/ ~s.mw.enableDirPermissionsWarning
    THEN s
    ELSE [s EXCEPT !.mw.dirPermissionsWarning = TRUE,
                   !.mw.enableDirPermissionsWarning = FALSE]

\* What a completion handler leaves in obs when it returns.
completed(pre, s, kind) ==
    LET forced == s.obs.requestedBy = "sendFinished"
        s1 == [s EXCEPT !.obs.notified = @ \cup {kind},
                        !.obs.requestedBy = None,
                        !.obs.fsAge = IF s.mw.futureSelection = None THEN 0
                                      ELSE IF forced THEN @ ELSE 1]
    IN  [s1 EXCEPT !.obs.completion =
             [kind |-> kind, forced |-> forced, pre |-> pre, post |-> Snap(s1)]]

\* A readingAborted that only reports, and leaves the busy display on.
readingAbortedStaysBusy(s) ==
    completed(Snap(s), [s EXCEPT !.obs.shown = @ \cup {"Aborted"}], "aborted")

(***************************************************************************)
(* MainWindow::startingReading, readingFinished, readingAborted            *)
(***************************************************************************)
startingReading(s) ==
    [busyDisplay(s) EXCEPT !.obs.notified = @ \cup {"startingReading"}]

\* errSubDirs: firstToplevel()->errSubDirCount() > 0
readingFinished(s, errSubDirs) ==
    LET s1 == idleDisplay(s)
        s2 == [s1 EXCEPT !.obs.shown = @ \cup {"Finished"}]
        s3 == IF firstToplevel(s2) # None /\ errSubDirs
              THEN showDirPermissionsWarning(s2)
              ELSE s2
    IN  completed(Snap(s), s3, "finished")

readingAborted(s) ==
    LET s1 == idleDisplay(s)
        s2 == [s1 EXCEPT !.obs.shown = @ \cup {"Aborted"}]
    IN  completed(Snap(s), s2, "aborted")

(***************************************************************************)
(* The scanning engine (DirTree, DirTreeModel).  Its code is not part of   *)
(* the source at hand; it is modelled from the specification: it works on  *)
(* its own and reports through the notifications startingReading(),        *)
(* finished() and aborted(); a root that cannot be opened is reported      *)
(* synchronously to the caller and starts no session.                      *)
(***************************************************************************)
\* tree.startRequest: the root of the subtree that the engine was asked to
\* read and has not begun to read yet ("top": the whole tree), or none.
NoRequest == None

\* Items leave the tree: the SelectionModel drops its pointers to them and
\* signals the change.
removeItems(s, gone) ==
    LET s1 == [s EXCEPT
                 !.tree.items = @ \ gone,
                 !.sel.currentItem = IF @ \in gone THEN None ELSE @,
                 !.sel.currentBranch = IF @ \in gone THEN None ELSE @,
                 !.sel.selectedItems = @ \ gone,
                 !.view.expanded = @ \ gone]
    IN  IF s1.sel = s.sel THEN s1 ELSE selectionSignals(s1)

\* DirTree::reset, DirTreeModel::clear: the tree is emptied and the read
\* jobs of a running scan are dropped without a notification.
treeReset(s) ==
    [removeItems(s, AllItems) EXCEPT !.tree.isBusy = FALSE,
                                  !.tree.abortRequested = FALSE,
                                  !.tree.startRequest = NoRequest]

\* DirTreeModel::openUrl, readPkg, refreshSelected and DirTree::readCache,
\* when the engine accepts the request.
requestStart(s, kind, target) ==
    [s EXCEPT !.tree.startRequest = IF kind = "refresh" THEN target ELSE "top",
              !.tree.url = IF kind = "refresh" THEN @
                           ELSE IF kind = "pkg" THEN "pkg" ELSE "dir",
              !.obs.requestedBy = "command"]

\* DirTreeModel::openUrl when the root cannot be opened: it throws a
\* SysCallFailedException and starts nothing.
openUrlThrows(s) == [s EXCEPT !.obs.log = Append(@, "failed")]

\* DirTree::sendFinished
sendFinished(s) ==
    readingFinished([s EXCEPT !.tree.isBusy = FALSE, !.obs.requestedBy = "sendFinished"],
                    FALSE)

\* DirTree::abortReading
abortReading(s) == [s EXCEPT !.tree.abortRequested = TRUE]

\* The engine starts the requested scan: a refresh re-reads one subtree, any
\* other request reads the whole tree anew.
engineStart(s) ==
    LET s1 == removeItems(s, Subtree(s.tree.startRequest))
    IN  [s1 EXCEPT !.tree.isBusy = TRUE,
                   !.tree.abortRequested = FALSE,
                   !.tree.startRequest = NoRequest]

engineStop(s) == [s EXCEPT !.tree.isBusy = FALSE, !.tree.abortRequested = FALSE]

(***************************************************************************)
(* The user's commands.  The answers a user gives to the dialogs a command *)
(* opens, and whether the engine can open the root, are inputs: a sequence *)
(* of answers, one for each "open directory" dialog the command shows (an  *)
(* empty sequence: the dialog is cancelled).                               *)
(***************************************************************************)
\* How many "open directory" dialogs re-opened by a failed open the user
\* answers, at most; the one after those is cancelled.
MaxReprompts == 0

Answer == [path : {"dir", "pkg", "unpkg"}, opens : BOOLEAN]

\* The dialog is shown again only after a directory that could not be opened
\* (openDir's catch block); a package URL always opens.
RECURSIVE AnswersUpTo(_)
AnswersUpTo(n) ==
    IF n = 0 THEN {<<>>}
    ELSE {<<>>} \cup { <<a>> : a \in {x \in Answer : x.opens} }
                \cup { <<[path |-> "unpkg", opens |-> FALSE]>> }
                \cup { <<[path |-> "dir", opens |-> FALSE]>> \o rest :
                          rest \in AnswersUpTo(n - 1) }

Answers == AnswersUpTo(MaxReprompts + 1)

\* MainWindow::isUnpkgUrl
isUnpkgUrl(url) == url = "unpkg"

\* The QMessageBox "Could not open directory %1" of openDir's and
\* showUnpkgFiles' catch blocks.
errorPopup(s) == [s EXCEPT !.obs.shown = @ \cup {"Could not open directory"}]

\* MainWindow::readPkg
readPkg(s) == requestStart(expandTreeToLevel(s, 0), "pkg", None)

\* MainWindow::showUnpkgFiles( const UnpkgSettings & )
showUnpkgFiles(s, opens) ==
    LET s1 == treeReset(s)
        s2 == IF opens
              THEN requestStart(s1, "dir", None)
              ELSE errorPopup(sendFinished(openUrlThrows(s1)))
    IN  updateActions(s2)

RECURSIVE askOpenDir(_, _)

(***************************************************************************)
(* MainWindow::openDir                                                     *)
(***************************************************************************)
openDir(s, opens, rest) ==
    LET s1 == IF opens
              THEN requestStart(s, "dir", None)
              ELSE askOpenDir(errorPopup(sendFinished(openUrlThrows(s))), rest)
    IN  expandTreeToLevel(updateActions(s1), 1)

(***************************************************************************)
(* MainWindow::openUrl                                                     *)
(***************************************************************************)
openUrl(s, answer, rest) ==
    LET s1 == clearHistory([s EXCEPT !.mw.enableDirPermissionsWarning = TRUE])
    IN  IF isPkgUrl(answer.path) THEN readPkg(s1)
        ELSE IF isUnpkgUrl(answer.path) THEN showUnpkgFiles(s1, answer.opens)
        ELSE openDir(s1, answer.opens, rest)

(***************************************************************************)
(* MainWindow::askOpenDir                                                  *)
(***************************************************************************)
askOpenDir(s, answers) ==
    LET s1 == [s EXCEPT !.obs.log = Append(@, "asked")]
    IN  IF answers = <<>>
        THEN s1
        ELSE openUrl(treeReset(s1), Head(answers), Tail(answers))

\* MainWindow::askOpenPkg, the dialog not cancelled
askOpenPkg(s) == readPkg(treeReset(s))

(***************************************************************************)
(* The tree layouts L1, L2, L3                                             *)
(***************************************************************************)
LayoutNames == {"L1", "L2", "L3"}

\* MainWindow::createLayouts: every TreeLayout starts with both flags on;
\* L3 starts without the details panel.
createLayouts ==
    [n \in LayoutNames |-> [showCurrentPath |-> TRUE, showDetailsPanel |-> n # "L3"]]

\* MainWindow::saveLayout( _currentLayout ): the checked state of
\* actionShowCurrentPath and actionShowDetailsPanel goes into the record.
saveLayout(s, layout) ==
    [s EXCEPT !.mw.layouts[layout] =
        [showCurrentPath |-> s.mw.showCurrentPath,
         showDetailsPanel |-> s.mw.showDetailsPanel]]

\* MainWindow::applyLayout
applyLayout(s, layout) ==
    [s EXCEPT !.mw.showCurrentPath = s.mw.layouts[layout].showCurrentPath,
              !.mw.showDetailsPanel = s.mw.layouts[layout].showDetailsPanel]

\* A changeLayout that applies the new layout without saving the old one.
changeLayoutWithoutSaving(s, name, data) ==
    LET layoutName == IF name # "" THEN name ELSE IF data # None THEN data ELSE "L2"
        s1 == [s EXCEPT !.mw.layoutName = layoutName]
    IN  IF layoutName \in LayoutNames
        THEN applyLayout([s1 EXCEPT !.mw.currentLayout = layoutName], layoutName)
        ELSE [s1 EXCEPT !.obs.log = Append(@, "No layout")]

\* MainWindow::changeLayout( name ); data: the data() of the QAction that
\* sent the signal, none if no action sent it.
changeLayout(s, name, data) ==
    LET layoutName == IF name # "" THEN name ELSE IF data # None THEN data ELSE "L2"
        s1 == [s EXCEPT !.mw.layoutName = layoutName]
        s2 == IF s1.mw.currentLayout # None THEN saveLayout(s1, s1.mw.currentLayout) ELSE s1
    IN  IF layoutName \in LayoutNames
        THEN applyLayout([s2 EXCEPT !.mw.currentLayout = layoutName], layoutName)
        ELSE [s2 EXCEPT !.obs.log = Append(@, "No layout")]

(***************************************************************************)
(* MainWindow::MainWindow: the fields as the constructor leaves them       *)
(* before its final updateActions().                                       *)
(***************************************************************************)
Constructed ==
    [ mw   |-> [ terminated |-> FALSE,
                 updateTimer |-> FALSE,
                 treeExpandTimer |-> FALSE,
                 futureSelection |-> None,
                 enableDirPermissionsWarning |-> FALSE,
                 dirPermissionsWarning |-> FALSE,
                 treemapEnabled |-> TRUE,
                 layoutName |-> "L2",
                 currentLayout |-> "L2",
                 layouts |-> createLayouts,
                 showCurrentPath |-> TRUE,
                 showDetailsPanel |-> TRUE,
                 enabled |-> AllDisabled ],
      view |-> [ level |-> 0, expanded |-> {} ],
      sel  |-> [ currentItem |-> None, currentBranch |-> None, selectedItems |-> {} ],
      tree |-> [ isBusy |-> FALSE, url |-> "", items |-> {},
                 startRequest |-> NoRequest, abortRequested |-> FALSE ],
      hist |-> NoHistory,
      obs  |-> [ slot |-> None, pruned |-> FALSE, notified |-> {}, log |-> <<>>,
                 shown |-> {}, completion |-> NoCompletion,
                 requestedBy |-> None, entryBusy |-> FALSE, fsAge |-> 0,
                 fsUrl |-> "" ] ]

\* An exception that leaves a slot is undefined behaviour for Qt: the process
\* is terminated, or the event loop goes on with the state as the throw left
\* it.
Outcomes == {"terminate", "continue"}

escapesSlot(s, outcome) ==
    IF outcome = "terminate"
    THEN [Constructed EXCEPT !.mw.terminated = TRUE, !.obs = s.obs]
    ELSE s

(***************************************************************************)
(* MainWindow::refreshAll                                                  *)
(***************************************************************************)
\* opens: the engine can open the tree's URL again.  If it cannot, the
\* exception leaves refreshAll(), which has no try block, and the slot.
refreshAll(s, answers, opens, outcome) ==
    LET s1 == [s EXCEPT !.mw.enableDirPermissionsWarning = TRUE]
    IN  IF s1.tree.url # ""
        THEN IF isPkgUrl(s1.tree.url)
             THEN updateActions(requestStart(s1, "pkg", None))
             ELSE IF opens
             THEN updateActions(requestStart(s1, "dir", None))
             ELSE escapesSlot(openUrlThrows(s1), outcome)
        ELSE askOpenDir(s1, answers)

(***************************************************************************)
(* MainWindow::refreshSelected                                             *)
(***************************************************************************)
\* starts: DirTreeModel::refreshSelected() asks the tree to read the selected
\* item again; it starts nothing for an item that it does not read.
refreshSelectedWith(s, starts) ==
    LET s1 == busyDisplay(s)
        s2 == futureSelectionSet(s1, first(s1.sel.selectedItems))
        s3 == IF starts THEN requestStart(s2, "refresh", first(s2.sel.selectedItems))
              ELSE s2
    IN  updateActions(s3)

refreshSelected(s) == refreshSelectedWith(s, TRUE)

\* A stopReading that does not ask whether the engine is busy.
stopReadingUnguarded(s) ==
    [abortReading(s) EXCEPT !.obs.shown = @ \cup {"Reading aborted."}]

\* A stopReading that switches to the idle display itself.
stopReadingGoesIdle(s) ==
    IF s.tree.isBusy
    THEN idleDisplay([abortReading(s) EXCEPT !.obs.shown = @ \cup {"Reading aborted."}])
    ELSE s

(***************************************************************************)
(* MainWindow::stopReading                                                 *)
(***************************************************************************)
stopReading(s) ==
    IF s.tree.isBusy
    THEN [abortReading(s) EXCEPT !.obs.shown = @ \cup {"Reading aborted."}]
    ELSE s

\* MainWindow::readCache, with a cache file name
readCache(s) == requestStart(clearHistory(treeReset(s)), "cache", None)

\* MainWindow::askReadCache, the dialog not cancelled
askReadCache(s) == updateActions(readCache(s))

\* MainWindow::navigateToToplevel
navigateToToplevel(s) ==
    LET toplevel == firstToplevel(s)
    IN  IF toplevel # None
        THEN setCurrentItem(expandTreeToLevel(s, 1), toplevel)
        ELSE s

\* MainWindow::navigateUp: the toplevel item's parent is the tree's root.
navigateUp(s) ==
    LET currentItem == s.sel.currentItem
    IN  IF currentItem # None /\ parent(currentItem) # None
        THEN setCurrentItem(s, parent(currentItem))
        ELSE s

\* DirTree::locate( url ): the item with this URL, if the tree has it
locate(s, url) == IF url \in s.tree.items THEN url ELSE None

\* MainWindow::navigateToUrl
navigateToUrl(s, url) ==
    IF url # ""
    THEN LET item == locate(s, url)
         IN  IF item # None
             THEN [setCurrentItem(s, item) EXCEPT !.view.expanded = @ \cup {item}]
             ELSE s
    ELSE s

\* HistoryStack: the location at the cursor, goBack() and goForward().  They
\* move the cursor; the caller navigates to the location they yield.
location(s) == s.hist.entries[s.hist.cursor]
goBack(s) == [s EXCEPT !.hist.cursor = @ - 1]
goForward(s) == [s EXCEPT !.hist.cursor = @ + 1]

\* HistoryButtons::historyGoBack, historyGoForward: the slots of actionGoBack
\* and actionGoForward; their signal navigateToUrl( QString ) is connected to
\* MainWindow::navigateToUrl.
historyGoBack(s) ==
    IF canGoBack(s) THEN navigateToUrl(goBack(s), location(goBack(s))) ELSE s

historyGoForward(s) ==
    IF canGoForward(s) THEN navigateToUrl(goForward(s), location(goForward(s))) ELSE s

\* MainWindow::showElapsedTime
showElapsedTime(s) == [s EXCEPT !.obs.shown = @ \cup {"Reading..."}]

(***************************************************************************)
(* The state machine                                                       *)
(***************************************************************************)
\* A step to the state s the handler returns, the history cut to n entries.
CommitKeeping(s, n) ==
    \E r \in {s} :
        /\ ~mw.terminated
        /\ mw' = r.mw
        /\ view' = r.view
        /\ sel' = r.sel
        /\ tree' = r.tree
        /\ hist' = newest(r.hist, n)
        /\ obs' = [r.obs EXCEPT !.entryBusy = @ /\ r.obs.requestedBy # None]

Commit(s) == CommitKeeping(s, MaxHistory)

\* A command of the user: obs names it if it asked the engine to start a scan.
Command(name, s) ==
    Commit([s EXCEPT !.obs.requestedBy = IF @ # None THEN name ELSE None])

\* The state on entry to a handler.
Cur ==
    Begin([mw |-> mw, view |-> view, sel |-> sel, tree |-> tree, hist |-> hist,
           obs |-> obs])

\* The constructor ends with updateActions().
Init ==
    LET s == updateActions(Constructed)
    IN  /\ mw = s.mw
        /\ view = s.view
        /\ sel = s.sel
        /\ tree = s.tree
        /\ hist = s.hist
        /\ obs = s.obs

\* actionOpenDir: never disabled
AskOpenDir ==
    \E answers \in Answers \ {<<>>} : Command("askOpenDir", askOpenDir(Cur, answers))

\* actionOpenPkg: never disabled by updateActions
AskOpenPkg == Command("askOpenPkg", askOpenPkg(Cur))

\* actionShowUnpkgFiles: never disabled by updateActions
AskShowUnpkgFiles ==
    \E opens \in BOOLEAN : Command("askShowUnpkgFiles", showUnpkgFiles(Cur, opens))

RefreshAll ==
    /\ mw.enabled.refreshAll
    /\ \E answers \in IF tree.url # "" THEN {<<>>} ELSE Answers :
       \E opens \in IF tree.url = "" \/ isPkgUrl(tree.url) THEN {TRUE} ELSE BOOLEAN :
       \E outcome \in IF opens THEN {"continue"} ELSE Outcomes :
          Command("refreshAll", refreshAll(Cur, answers, opens, outcome))

\* actionRefreshSelected, actionReadExcludedDirectory and
\* actionContinueReadingAtMountPoint all trigger refreshSelected().
RefreshSelected ==
    /\ \E a \in {"refreshSelected", "readExcludedDirectory", "continueReadingAtMountPoint"} :
          mw.enabled[a]
    /\ Command("refreshSelected", refreshSelected(Cur))

StopReading ==
    /\ mw.enabled.stopReading
    /\ Command("stopReading", [stopReading(Cur) EXCEPT !.obs.slot = "stopReading"])

AskReadCache ==
    /\ mw.enabled.askReadCache
    /\ Command("askReadCache", askReadCache(Cur))

\* The actions of the menu "expand tree to level n"
ExpandTreeToLevel ==
    \E level \in Levels : Commit(expandTreeToLevel(Cur, level))

\* actionGoToToplevel triggers navigateToToplevel().
NavigateToToplevel ==
    /\ mw.enabled.goToToplevel
    /\ Command("navigateToToplevel", navigateToToplevel(Cur))

\* _treeExpandTimer's timeout() triggers actionExpandTreeLevel1; the timer is
\* single-shot.
TreeExpandTimerTimeout ==
    /\ mw.treeExpandTimer
    /\ Commit(expandTreeToLevel([Cur EXCEPT !.mw.treeExpandTimer = FALSE,
                                             !.obs.slot = "treeExpandTimer"], 1))

\* _updateTimer's timeout() calls showElapsedTime().
UpdateTimerTimeout ==
    /\ mw.updateTimer
    /\ Commit(showElapsedTime(Cur))

\* The user makes an item of the tree the current item, or the current branch.
UserSetCurrentItem ==
    \E i \in tree.items : i # sel.currentItem /\ Commit(setCurrentItem(Cur, i))

UserSetCurrentBranch ==
    \E i \in tree.items : i # sel.currentBranch /\ Commit(setCurrentBranch(Cur, i))

\* Go > Up, Back and Forward.
NavigateUp ==
    /\ mw.enabled.goUp
    /\ CommitKeeping([navigateUp(Cur) EXCEPT !.obs.slot = "navigateUp"], MaxStack)

HistoryGoBack ==
    /\ canGoBack(Cur)
    /\ CommitKeeping([historyGoBack(Cur) EXCEPT !.obs.slot = "historyGoBack"], MaxStack)

HistoryGoForward ==
    /\ canGoForward(Cur)
    /\ CommitKeeping([historyGoForward(Cur) EXCEPT !.obs.slot = "historyGoForward"],
                     MaxStack)

\* The user closes the permissions warning panel.
CloseDirPermissionsWarning ==
    /\ mw.dirPermissionsWarning
    /\ Commit([Cur EXCEPT !.mw.dirPermissionsWarning = FALSE])

\* The engine's notifications and its progress.
EngineStartingReading ==
    /\ tree.startRequest # NoRequest
    /\ Commit(startingReading(engineStart(Cur)))

EngineAddItem ==
    /\ tree.isBusy
    /\ \E i \in Items \ tree.items :
          /\ parent(i) = None \/ parent(i) \in tree.items
          /\ Commit([Cur EXCEPT !.tree.items = @ \cup {i}])

EngineFinished ==
    /\ tree.isBusy
    /\ "top" \in tree.items
    /\ \E errSubDirs \in BOOLEAN : Commit(readingFinished(engineStop(Cur), errSubDirs))

EngineAborted ==
    /\ tree.isBusy
    /\ tree.abortRequested
    /\ Commit(readingAborted(engineStop(Cur)))

Next ==
    \/ AskOpenDir
    \/ AskOpenPkg
    \/ AskShowUnpkgFiles
    \/ RefreshAll
    \/ RefreshSelected
    \/ StopReading
    \/ AskReadCache
    \/ ExpandTreeToLevel
    \/ NavigateToToplevel
    \/ TreeExpandTimerTimeout
    \/ UpdateTimerTimeout
    \/ UserSetCurrentItem
    \/ UserSetCurrentBranch
    \/ CloseDirPermissionsWarning
    \/ EngineStartingReading
    \/ EngineAddItem
    \/ EngineFinished
    \/ EngineAborted

Spec == Init /\ [][Next]_vars

(***************************************************************************)
(* The engine answers an abort request: once abortReading() was called on  *)
(* a busy engine, aborted() is emitted unless the scan ends or is dropped  *)
(* first.  This is weak fairness of EngineAborted, WF_vars(EngineAborted), *)
(* written out with the action's enabling condition.                       *)
(***************************************************************************)
AbortedEnabled == tree.isBusy /\ tree.abortRequested /\ ~mw.terminated

LiveSpec ==
    Spec /\ ([]<>~AbortedEnabled \/ []<><<EngineAborted>>_vars)

(***************************************************************************)
(* Navigation in a scanned tree.  The window has opened a directory and    *)
(* the scan has found every item and finished; from there the user moves   *)
(* the current item by clicking, with Go > Up, Back and Forward.           *)
(***************************************************************************)
Scanned ==
    CHOOSE s \in
        { Begin(readingFinished(engineStop(s3), FALSE)) :
            s3 \in { [Begin(s2) EXCEPT !.tree.items = Items] :
                s2 \in { startingReading(engineStart(Begin(s1))) :
                    s1 \in { askOpenDir(s0, <<[path |-> "dir", opens |-> TRUE]>>) :
                        s0 \in {Begin(updateActions(Constructed))} } } } } : TRUE

HistInit ==
    \E s \in {Scanned} :
        /\ mw = s.mw
        /\ view = s.view
        /\ sel = s.sel
        /\ tree = s.tree
        /\ hist = s.hist
        /\ obs = s.obs

ClickItem ==
    \E i \in tree.items :
        /\ i # sel.currentItem
        /\ CommitKeeping([setCurrentItem(Cur, i) EXCEPT !.obs.slot = "click"], MaxStack)

HistNext ==
    \/ ClickItem
    \/ NavigateUp
    \/ HistoryGoBack
    \/ HistoryGoForward

HistSpec == HistInit /\ [][HistNext]_vars

(***************************************************************************)
(* Working with the selection: the session starts when a directory or the  *)
(* package database has been read completely, or when the user has just    *)
(* asked to read the selected mount point again.  The user changes the     *)
(* current item, adds items to the selection and removes them from it and  *)
(* moves the mouse over the treemap, while the engine goes on with its     *)
(* work.                                                                   *)
(***************************************************************************)
\* The window after the first complete scan of a directory or of the package
\* database.
Browsing(pkgs) ==
    CHOOSE s \in
        { Begin(readingFinished(engineStop(s3), FALSE)) :
            s3 \in { [Begin(s2) EXCEPT !.tree.items = AllItems] :
                s2 \in { startingReading(engineStart(Begin(s1))) :
                    s1 \in { IF pkgs THEN askOpenPkg(s0)
                             ELSE askOpenDir(s0, <<[path |-> "dir", opens |-> TRUE]>>) :
                        s0 \in {Begin(updateActions(Constructed))} } } } } : TRUE

\* The window when the user has made the mount point the current item and
\* has triggered actionContinueReadingAtMountPoint.
Rereading ==
    CHOOSE s \in
        { Begin(refreshSelected(s1)) :
            s1 \in { Begin(setCurrentItem(s0, "mnt")) : s0 \in {Browsing(FALSE)} } } : TRUE

SessionStates == {updateActions(Constructed), Browsing(FALSE), Browsing(TRUE), Rereading}

SelInit ==
    \E s \in SessionStates :
        /\ mw = s.mw
        /\ view = s.view
        /\ sel = s.sel
        /\ tree = s.tree
        /\ hist = newest(s.hist, MaxHistory)
        /\ obs = s.obs

\* SelectionModel: an item is added to the selection or removed from it; the
\* current item stays.  Only selectionChanged() is sent.
\* A toggleSelected whose selectionChanged() reaches the history, too.
toggleSelectedRecords(s, i) ==
    addToHistory(
        updateActions(showSummary(
            [s EXCEPT !.sel.selectedItems = IF i \in @ THEN @ \ {i} ELSE @ \cup {i}])), i)

toggleSelected(s, i) ==
    updateActions(showSummary(
        [s EXCEPT !.sel.selectedItems = IF i \in @ THEN @ \ {i} ELSE @ \cup {i}]))

ToggleSelected ==
    \E i \in tree.items :
        Commit([toggleSelected(Cur, i) EXCEPT !.obs.slot = "selectionChanged"])

\* treemapView's treemapChanged() -> updateActions()
TreemapChanged ==
    Commit([updateActions(Cur) EXCEPT !.obs.slot = "treemapChanged"])

\* MainWindow::showCurrent: a message in the status bar.
showCurrent(s, item) ==
    s

\* treemapView's hoverEnter( item ) -> showCurrent( item )
HoverEnter ==
    \E i \in tree.items :
        Commit([showCurrent(Cur, i) EXCEPT !.obs.slot = "hoverEnter"])

\* actionRefreshSelected with a file or a pseudo directory selected, which
\* are not directories that the engine could read again.
RefreshSelectedNotStarted ==
    /\ mw.enabled.refreshSelected
    /\ ~isDir(first(sel.selectedItems))
    /\ Commit([refreshSelectedWith(Cur, FALSE) EXCEPT !.obs.slot = "refreshSelected"])

SelNext ==
    \/ RefreshSelectedNotStarted
    \/ ToggleSelected
    \/ UserSetCurrentItem
    \/ TreemapChanged
    \/ HoverEnter
    \/ StopReading
    \/ EngineStartingReading
    \/ EngineAddItem
    \/ EngineFinished
    \/ EngineAborted

SelSpec == SelInit /\ [][SelNext]_vars

(***************************************************************************)
(* Working with the layouts: the window is constructed with the settings   *)
(* of an earlier run or of the user's editor (the "Layout" name, the flags *)
(* of each layout); then the user chooses layouts from the View menu and   *)
(* switches the breadcrumbs and the details panel on and off.              *)
(***************************************************************************)
\* The "Layout" setting: a layout name, another string, or an empty one.
LayoutSettings == LayoutNames \cup {"Lx", ""}

Flags == [showCurrentPath : BOOLEAN, showDetailsPanel : BOOLEAN]

\* The constructor from createLayouts() on: readSettings() reads the name
\* and, for L1, flags that may differ from the defaults; checked is the
\* state of the two actions as setupUi() leaves it; changeLayout( _layoutName ).
constructedWith(setting, stored, checked) ==
    CHOOSE s \in
        { updateActions(changeLayout(s0, setting, None)) :
            s0 \in { [Constructed EXCEPT !.mw.layoutName = setting,
                                         !.mw.currentLayout = None,
                                         !.mw.layouts["L1"] = stored,
                                         !.mw.showCurrentPath = checked.showCurrentPath,
                                         !.mw.showDetailsPanel = checked.showDetailsPanel] } } : TRUE

LayoutInit ==
    \E setting \in LayoutSettings, stored \in Flags, checked \in Flags :
    \E s \in {constructedWith(setting, stored, checked)} :
        /\ mw = s.mw
        /\ view = s.view
        /\ sel = s.sel
        /\ tree = s.tree
        /\ hist = s.hist
        /\ obs = s.obs

\* actionLayout1, actionLayout2, actionLayout3 -> changeLayout()
ChangeLayout ==
    \E data \in LayoutNames :
        Commit([changeLayout(Cur, "", data) EXCEPT !.obs.slot = "changeLayout"])

\* actionShowCurrentPath, actionShowDetailsPanel: toggled( bool ) shows or
\* hides the widget.
ToggleShowCurrentPath ==
    Commit([Cur EXCEPT !.mw.showCurrentPath = ~@, !.obs.slot = "toggled"])

ToggleShowDetailsPanel ==
    Commit([Cur EXCEPT !.mw.showDetailsPanel = ~@, !.obs.slot = "toggled"])

LayoutNext ==
    \/ ChangeLayout
    \/ ToggleShowCurrentPath
    \/ ToggleShowDetailsPanel

LayoutSpec == LayoutInit /\ [][LayoutNext]_vars

(***************************************************************************)
(* Properties of the lifecycle controller.                                 *)
(*                                                                         *)
(* A completion is a run of readingFinished() or readingAborted(); pre and *)
(* post are the state on entry to the handler and when it returns.         *)
(***************************************************************************)
Completed == obs.completion.kind # None
pre == obs.completion.pre
post == obs.completion.post

\* The completion applied the pending future selection.
Applied == Completed /\ pre.fs # None /\ post.fs = None /\ post.branch = pre.fs

\* C1: after a completion of a busy session the session is idle (the ticker
\* is stopped) and the settle-timer is not pending, whichever branch the
\* completion took.
C1_IdleAndSettleTimerStopped ==
    (Completed /\ ~obs.completion.forced /\ pre.busy) => (~post.busy /\ ~post.timer)

\* C2: after every completion in which a future selection was pending, the
\* future selection is empty, whether the target was located or not.
C2_FutureSelectionConsumed ==
    (Completed /\ ~obs.completion.forced /\ pre.fs # None) => post.fs = None

\* C3: a future selection is applied only at the first completion after the
\* refresh-selected that set it, never at the completion of a later session
\* (here: the target is a directory below the toplevel item, and the later
\* session is a scan of the same URL whose end the engine announces).
C3_NeverAppliedLater ==
    ~( /\ Applied /\ ~obs.completion.forced
       /\ pre.fsAge > 0 /\ pre.fsUrl = pre.url /\ parent(pre.fs) # None )

\* C4: refresh-selected remembers the first selected item P; if P is located
\* in the tree when a completion finds it pending, P is the current branch
\* after the completion and, if P is a mount point, P is expanded.
C4_LocatedTargetBecomesCurrent ==
    /\ [] ( (Completed /\ pre.fs # None /\ pre.located)
              => /\ post.branch = pre.fs
                 /\ post.fs = None
                 /\ isMountPoint(pre.fs) => pre.fs \in post.view.expanded )
    /\ [][ obs'.requestedBy = "refreshSelected"
              => mw'.futureSelection = first(sel.selectedItems) ]_vars

C4_Witness ==
    /\ Completed /\ pre.fs = "mnt" /\ pre.located
    /\ pre.branch # "mnt" /\ "mnt" \notin pre.view.expanded
    /\ pre.busy /\ pre.fsAge = 0

\* C5: if the pending future selection cannot be located at a completion, the
\* completion selects nothing: current branch, current item and selection
\* are what they were, also when the tree has a toplevel item to fall back to.
C5_NoFallbackSelection ==
    (Completed /\ pre.fs # None /\ ~pre.located)
        => /\ post.branch = pre.branch
           /\ post.item = pre.item
           /\ post.selected = pre.selected

C5_Witness ==
    /\ Completed /\ pre.fs = "mnt" /\ ~pre.located
    /\ "top" \in tree.items /\ pre.branch = None /\ pre.busy

\* C6: a completion with no future selection pending and no current branch
\* expands the tree to level 1 and touches neither the future selection nor
\* the current branch.
C6_ColdStartExpandsToLevel1 ==
    (Completed /\ pre.fs = None /\ pre.branch = None)
        => /\ post.view = [level |-> 1, expanded |-> {}]
           /\ post.fs = None
           /\ post.branch = None

C6_Witness ==
    /\ Completed /\ pre.fs = None /\ pre.branch = None
    /\ pre.busy /\ pre.view.level # 1 /\ "top" \in tree.items

\* C7: a completion with no future selection pending and a current branch set
\* leaves current branch, current item, selection and expansion unchanged.
C7_EstablishedPositionKept ==
    (Completed /\ pre.fs = None /\ pre.branch # None)
        => /\ post.branch = pre.branch
           /\ post.item = pre.item
           /\ post.selected = pre.selected
           /\ post.view = pre.view

C7_Witness ==
    /\ Completed /\ pre.fs = None /\ pre.branch # None
    /\ pre.busy /\ pre.view.level # 1

\* C8: while the session is busy no command of the user asks the engine to
\* start a scan.
C8_NoStartRequestWhileBusy ==
    ~(obs.requestedBy # None /\ obs.entryBusy)

\* C9: a completion handler runs only while the session is busy.
C9_CompletionOnlyWhileBusy ==
    Completed => pre.busy

\* C10: the busy/idle display (ticker running, treemap disabled, settle-timer
\* armed) changes only in a step in which the handler of an engine
\* notification ran.
C10_DisplayChangesOnlyOnNotification ==
    [][ ( \/ mw'.updateTimer # mw.updateTimer
          \/ mw'.treemapEnabled # mw.treemapEnabled
          \/ (mw'.treeExpandTimer /\ ~mw.treeExpandTimer) )
        => obs'.notified # {} ]_vars

\* C11: stopReading() while the session is idle has no effect: no abort
\* request, no message, and the session, the timers, the future selection,
\* the selection and the history are as before; calling it again changes
\* nothing either.  The same holds for every call made while the engine is
\* not busy.
C11_StopReadingWhileIdleIsNoOp ==
    /\ [] ( ~mw.updateTimer
              => /\ stopReading(Cur) = Cur
                 /\ stopReading(stopReading(Cur)) = stopReading(Cur) )
    /\ [][ (obs'.slot = "stopReading" /\ ~tree.isBusy)
              => /\ mw' = mw /\ view' = view /\ sel' = sel
                 /\ tree' = tree /\ hist' = hist
                 /\ obs'.shown = {} /\ obs'.notified = {} ]_vars

C11_Witness ==
    /\ obs.slot = "stopReading"
    /\ ~tree.isBusy /\ ~tree.abortRequested
    /\ obs.shown = {}

\* C12: stopReading() during a scan asks the engine to abort and shows
\* "Reading aborted.", but does not leave the busy state: the ticker keeps
\* running, no completion handler runs in the step, and timers, future
\* selection, selection and view are untouched; the session stays busy for as
\* long as the engine has not answered.
C12_StopReadingStaysBusy ==
    /\ [][ (obs'.slot = "stopReading" /\ tree.isBusy /\ mw.updateTimer)
              => /\ tree' = [tree EXCEPT !.abortRequested = TRUE]
                 /\ mw' = mw /\ mw'.updateTimer
                 /\ view' = view /\ sel' = sel /\ hist' = hist
                 /\ obs'.shown = {"Reading aborted."}
                 /\ obs'.notified = {} /\ obs'.completion = NoCompletion ]_vars
    /\ [] ( (tree.isBusy /\ tree.abortRequested) => mw.updateTimer )

C12_Witness ==
    /\ obs.slot = "stopReading"
    /\ tree.isBusy /\ tree.abortRequested /\ mw.updateTimer
    /\ obs.shown = {"Reading aborted."}

\* An abort was requested from the busy engine and is not answered yet.
StopPending == tree.isBusy /\ tree.abortRequested

\* C13: under LiveSpec, once stopReading() has asked a busy engine to abort,
\* the session eventually is idle: a completion handler has run, the ticker
\* is stopped and the engine is no longer busy, so that no second completion
\* follows for the session.  The only other way out is that a new open has
\* dropped the scan and its abort request before the engine answered.
C13_StopEventuallyIdle ==
    StopPending ~> ( \/ Completed /\ ~mw.updateTimer /\ ~tree.isBusy
                     \/ ~Completed /\ ~StopPending )

C13_Witness ==
    /\ Completed /\ obs.completion.kind = "aborted"
    /\ pre.busy /\ ~mw.updateTimer /\ ~tree.isBusy

\* The events of obs.log
Logged(e) == \E k \in 1..Len(obs.log) : obs.log[k] = e

\* An open failed in the step and a catch block handled it with sendFinished().
FailedOpenCaught == Logged("failed") /\ Completed /\ obs.completion.forced

\* C14: when the engine cannot open the root in openDir() or showUnpkgFiles(),
\* the command returns with the session idle: the ticker is not running, no
\* settle-timer is pending, actionStopReading is disabled, and the error
\* message was shown.
C14_FailedOpenEndsIdle ==
    FailedOpenCaught
        => /\ ~mw.updateTimer
           /\ ~mw.treeExpandTimer
           /\ ~mw.enabled.stopReading
           /\ "Could not open directory" \in obs.shown

\* C15: every failed open of a root, on every open path, is followed by the
\* user being asked for another root (askOpenDir) before the command returns.
C15_FailedOpenReprompts ==
    \A k \in 1..Len(obs.log) :
        obs.log[k] = "failed"
            => \E j \in (k+1)..Len(obs.log) : obs.log[j] = "asked"

\* busyDisplay()'s condition for arming _treeExpandTimer, in state s
ArmsSettleTimer(s) == ~isPkgUrl(s.tree.url) /\ s.sel.currentBranch = None

\* C16: on entry to the busy display (the engine's startingReading, or
\* refreshSelected) the settle-timer is armed iff the tree's URL is not a
\* package URL and there is no current branch; a timer that was pending stays
\* pending.  When the timer fires, the step disarms it and expands to level 1,
\* and changes nothing else: engine, selection, future selection, history and
\* actions stay, no completion runs and nothing is shown.
C16_SettleTimerArmedAndFires ==
    [][ /\ obs'.notified = {"startingReading"}
             => mw'.treeExpandTimer
                  = (mw.treeExpandTimer \/ ArmsSettleTimer(engineStart(Cur)))
        /\ obs'.requestedBy = "refreshSelected"
             => mw'.treeExpandTimer = (mw.treeExpandTimer \/ ArmsSettleTimer(Cur))
        /\ obs'.slot = "treeExpandTimer"
             => /\ mw.treeExpandTimer
                /\ mw' = [mw EXCEPT !.treeExpandTimer = FALSE]
                /\ view'.level = 1
                /\ sel' = sel /\ tree' = tree /\ hist' = hist
                /\ obs'.notified = {} /\ obs'.shown = {}
                /\ obs'.completion = NoCompletion
                /\ obs'.requestedBy = None ]_vars

\* the timer, armed by a start of reading, has fired while the engine reads
C16_Witness ==
    /\ obs.slot = "treeExpandTimer"
    /\ ~mw.treeExpandTimer /\ view.level = 1
    /\ mw.updateTimer /\ tree.isBusy /\ ArmsSettleTimer(Cur)

\* C17: an explicit expand request (a menu action's expandTreeToLevel(n), or
\* navigateToToplevel) made while the settle-timer is pending cancels the
\* timer, so that it cannot fire afterwards and set the level to 1.
C17_ExpandRequestCancelsSettleTimer ==
    [][ ((ExpandTreeToLevel \/ NavigateToToplevel) /\ mw.treeExpandTimer)
           => ~mw'.treeExpandTimer ]_vars

\* C18: the permissions warning is edge-triggered.  A step that creates the
\* panel starts with the warning armed and ends with it disarmed; the warning
\* becomes armed only in a step in which askOpenDir() put its question (it
\* calls openUrl) or in a step of refreshAll, never in a step that issues
\* refreshSelected's request or runs a completion announced by the engine;
\* and while a panel exists showDirPermissionsWarning() creates no other and
\* changes nothing.
C18_PermissionsWarningEdgeTriggered ==
    /\ [][ /\ (~mw.dirPermissionsWarning /\ mw'.dirPermissionsWarning)
                 => /\ mw.enableDirPermissionsWarning
                    /\ ~mw'.enableDirPermissionsWarning
           /\ (~mw.enableDirPermissionsWarning /\ mw'.enableDirPermissionsWarning)
                 => /\ Logged("asked")' \/ RefreshAll
                    /\ obs'.requestedBy # "refreshSelected"
                    /\ Completed' => obs'.completion.forced ]_vars
    /\ [] ( mw.dirPermissionsWarning => showDirPermissionsWarning(Cur) = Cur )

\* a finished scan with unreadable directories has just created the panel
C18_Witness ==
    /\ Completed /\ obs.completion.kind = "finished"
    /\ ~pre.panel /\ mw.dirPermissionsWarning
    /\ ~mw.enableDirPermissionsWarning

\* The commands that ask for a new top-level scan
TopLevelRequests ==
    {"askOpenDir", "askOpenPkg", "askShowUnpkgFiles", "askReadCache", "refreshAll"}

\* C19: when open-directory, open-package, show-unpackaged-files, read-cache
\* or refresh-all has been accepted (the command returns with its start
\* request issued), the permissions warning is armed.
C19_TopLevelRequestArmsWarning ==
    obs.requestedBy \in TopLevelRequests => mw.enableDirPermissionsWarning

\* C20: when open-directory, open-package, show-unpackaged-files or
\* read-cache has been accepted, the history is empty: neither back nor
\* forward is possible.
C20_TopLevelOpenClearsHistory ==
    obs.requestedBy \in (TopLevelRequests \ {"refreshAll"})
        => /\ hist = NoHistory
           /\ ~canGoBack(Cur) /\ ~canGoForward(Cur)

\* recordCurrent(A); recordCurrent(B); ... on the history of state s
RECURSIVE recorded(_, _)
recorded(s, locations) ==
    IF locations = <<>> THEN s
    ELSE recorded(addToHistory(s, Head(locations)), Tail(locations))

\* C21: browser-style pruning.  From any history: after recordCurrent(A);
\* recordCurrent(B), goBack() yields A, and a recordCurrent(C) that follows
\* leaves nothing to go forward to and A to go back to; after A, B, A, C
\* there is nothing to go forward to and goBack() yields A.  In the window, a
\* click or Go > Up that changes the current item records it in this way:
\* the entries after the cursor are discarded and the new item is appended.
C21_BrowserStylePruning ==
    /\ [] ( \A a, b, c \in Items :
              LET ab   == recorded(Cur, <<a, b>>)
                  abc  == addToHistory(goBack(ab), c)
                  abac == recorded(Cur, <<a, b, a, c>>)
              IN  /\ canGoBack(ab) /\ location(goBack(ab)) = a
                  /\ ~canGoForward(abc) /\ location(abc) = c
                  /\ canGoBack(abc) /\ location(goBack(abc)) = a
                  /\ ~canGoForward(abac) /\ location(goBack(abac)) = a )
    /\ [][ (obs'.slot \in {"click", "navigateUp"})
              => /\ hist' = newest([entries |-> SubSeq(hist.entries, 1, hist.cursor)
                                                  \o <<sel'.currentItem>>,
                                     cursor  |-> hist.cursor + 1], MaxStack)
                 /\ hist'.cursor = Len(hist'.entries) ]_vars

\* a click has recorded a new location while the cursor was not at the tip
C21_Witness ==
    /\ obs.slot = "click" /\ obs.pruned
    /\ ~canGoForward(Cur) /\ canGoBack(Cur)
    /\ location(Cur) = sel.currentItem
    /\ location(goBack(Cur)) # sel.currentItem

\* C22: Back and Forward move only the cursor: the entries of the history
\* are the same before and after the whole step, the navigation to the
\* location and the currentItemChanged() it causes included.
C22_BackForwardMoveOnlyCursor ==
    [][ (obs'.slot \in {"historyGoBack", "historyGoForward"})
           => hist'.entries = hist.entries ]_vars

C24_HistoryFedByCurrentItemChanged ==
    [][ /\ (\/ obs'.slot \in {"selectionChanged", "hoverEnter", "treemapChanged"}
            \/ obs'.notified = {"startingReading"})
           => hist' = hist
        /\ hist' # hist
           => /\ sel'.currentItem \notin {sel.currentItem, None}
              /\ hist'.entries[hist'.cursor] = sel'.currentItem ]_vars

\* The selection was changed around a current item that stayed, and the
\* history still ends with that item.
C24_Witness ==
    /\ obs.slot = "selectionChanged"
    /\ Cardinality(sel.selectedItems) = 2
    /\ sel.currentItem \notin sel.selectedItems \cup {None}
    /\ hist.entries = <<sel.currentItem>>

\* C24 as stated: no notification of the engine (startingReading, finished,
\* aborted) changes the entries or the cursor of the history.
C24_ScanNotificationsLeaveHistory ==
    [][ obs'.notified # {} => hist' = hist ]_vars

(***************************************************************************)
(* MainWindow::updateActions, checked while the user works with the        *)
(* selection.                                                              *)
(***************************************************************************)
\* The last step ended with updateActions(): the selection changed or the
\* treemap changed.
Updated == obs.slot \in {"selectionChanged", "treemapChanged"}

\* The enabled state of the actions as updateActions() would set it now.
enabledNow == updateActions(Cur).mw.enabled

\* C25: updateActions() enables Stop exactly when the tree is busy, and
\* Refresh All, Read Cache and Write Cache exactly when it is not; Stop and
\* Refresh All are never both enabled and never both disabled.
C25_StopAndRefreshAllExclusive ==
    /\ enabledNow.stopReading = tree.isBusy
    /\ enabledNow.refreshAll = ~tree.isBusy
    /\ enabledNow.askReadCache = ~tree.isBusy
    /\ enabledNow.askWriteCache = ~tree.isBusy
    /\ enabledNow.stopReading # enabledNow.refreshAll
    /\ Updated => /\ mw.enabled = enabledNow
                  /\ mw.enabled.stopReading # mw.enabled.refreshAll

\* The treemap changed while the tree was being read and items were selected.
C25_Witness ==
    /\ obs.slot = "treemapChanged"
    /\ tree.isBusy /\ sel.selectedItems # {}
    /\ mw.enabled.stopReading /\ ~mw.enabled.refreshAll
    /\ ~mw.enabled.askReadCache /\ ~mw.enabled.askWriteCache

\* C26: updateActions() enables Move to Trash exactly when at least one item
\* is selected, no selected item is a pseudo directory, no selected item is
\* a package entry and the tree is not being read.
C26_MoveToTrashEnabled ==
    /\ enabledNow.moveToTrash
          = ( /\ sel.selectedItems # {}
              /\ \A i \in sel.selectedItems : ~isPseudoDir(i) /\ ~isPkgInfo(Cur, i)
              /\ ~tree.isBusy )
    /\ Updated => mw.enabled.moveToTrash = enabledNow.moveToTrash

\* Two items were selected, none of them a pseudo directory or a package.
C26_Witness ==
    /\ obs.slot = "selectionChanged"
    /\ Cardinality(sel.selectedItems) = 2
    /\ mw.enabled.moveToTrash

\* C27: updateActions() enables Refresh Selected exactly when one item is
\* selected that is neither excluded nor a mount point, in a tree that is
\* not a package view; Continue Reading at Mount Point exactly when the one
\* selected item is a directory, not a package entry, and a mount point;
\* Read Excluded Directory exactly when it is such a directory and
\* excluded.  With no item or several items selected all three are disabled.
C27_SingleItemCommands ==
    LET one == Cardinality(sel.selectedItems) = 1
        it  == CHOOSE i \in sel.selectedItems : TRUE
        pkgView == "top" \in tree.items /\ isPkgUrl(tree.url)
        realDir == isDir(it) /\ ~isPkgInfo(Cur, it)
    IN  /\ enabledNow.refreshSelected
              = (one /\ ~isExcluded(it) /\ ~isMountPoint(it) /\ ~pkgView)
        /\ enabledNow.continueReadingAtMountPoint
              = (one /\ realDir /\ isMountPoint(it))
        /\ enabledNow.readExcludedDirectory
              = (one /\ realDir /\ isExcluded(it))
        /\ ~one => /\ ~enabledNow.refreshSelected
                   /\ ~enabledNow.continueReadingAtMountPoint
                   /\ ~enabledNow.readExcludedDirectory
        /\ Updated => /\ mw.enabled.refreshSelected = enabledNow.refreshSelected
                      /\ mw.enabled.continueReadingAtMountPoint
                            = enabledNow.continueReadingAtMountPoint
                      /\ mw.enabled.readExcludedDirectory
                            = enabledNow.readExcludedDirectory

\* The mount point and the excluded directory are both selected: neither
\* command is enabled.
C27_Witness ==
    /\ obs.slot = "selectionChanged"
    /\ sel.selectedItems = {"mnt", "excl"}
    /\ ~mw.enabled.refreshSelected
    /\ ~mw.enabled.continueReadingAtMountPoint
    /\ ~mw.enabled.readExcludedDirectory

\* C28: updateActions() enables the file size, file type and file age
\* statistics exactly when the tree is not being read and the selection is
\* empty or is one directory that is not a package entry; the three are
\* always in the same state.
C28_StatisticsEnabled ==
    LET oneRealDir == /\ Cardinality(sel.selectedItems) = 1
                      /\ \A i \in sel.selectedItems : isDir(i) /\ ~isPkgInfo(Cur, i)
        expected == ~tree.isBusy /\ (sel.selectedItems = {} \/ oneRealDir)
    IN  /\ enabledNow.fileSizeStats = expected
        /\ enabledNow.fileTypeStats = expected
        /\ enabledNow.fileAgeStats = expected
        /\ Updated => /\ mw.enabled.fileSizeStats = expected
                      /\ mw.enabled.fileTypeStats = expected
                      /\ mw.enabled.fileAgeStats = expected

\* The last selected item was removed from the selection of an idle tree.
C28_Witness ==
    /\ obs.slot = "selectionChanged"
    /\ sel.selectedItems = {} /\ sel.currentItem # None /\ ~tree.isBusy
    /\ mw.enabled.fileSizeStats /\ mw.enabled.fileTypeStats /\ mw.enabled.fileAgeStats

\* C29: updateActions() enables Go > Up exactly when there is a current item
\* below tree level 1, and Go > To Toplevel exactly when the tree has a
\* first toplevel item and there is no current item or one below level 1.
C29_GoUpAndToToplevel ==
    LET cur == sel.currentItem
        ftl == "top" \in tree.items
    IN  /\ enabledNow.goUp = (cur # None /\ treeLevel(cur) > 1)
        /\ enabledNow.goToToplevel = (ftl /\ (cur = None \/ treeLevel(cur) > 1))
        /\ Updated => /\ mw.enabled.goUp = enabledNow.goUp
                      /\ mw.enabled.goToToplevel = enabledNow.goToToplevel

\* The current item is the toplevel directory: neither Up nor To Toplevel.
C29_Witness ==
    /\ Updated
    /\ sel.currentItem = "top"
    /\ ~mw.enabled.goUp /\ ~mw.enabled.goToToplevel

\* A window just constructed that has nothing in common with s but what
\* updateActions() reads: whether the tree is busy, the current item and the
\* selected items, and the root of the tree (none, a directory, the packages).
inputsOnly(s) ==
    [Constructed EXCEPT !.tree.isBusy = s.tree.isBusy,
                        !.tree.url = s.tree.url,
                        !.tree.items = s.tree.items \cap {"top"},
                        !.sel.currentItem = s.sel.currentItem,
                        !.sel.selectedItems = s.sel.selectedItems]

\* C30: what updateActions() enables depends on nothing but the busy state of
\* the tree, the selection and the root of the tree: in every state it sets
\* the same values as in a freshly constructed window with these three
\* inputs, whatever the timers, the future selection, the warning flags and
\* the values set by earlier runs are; and it changes nothing but the enabled
\* state of the actions.
C30_EnablementDeterministic ==
    /\ enabledNow = updateActions(inputsOnly(Cur)).mw.enabled
    /\ [updateActions(Cur) EXCEPT !.mw.enabled = mw.enabled] = Cur

\* updateActions() has just run with the ticker running, a future selection
\* pending, the warning enabled and actions enabled by earlier runs, and it
\* has set what it sets in a fresh window with this selection.
C30_Witness ==
    /\ obs.slot = "selectionChanged"
    /\ mw.updateTimer /\ mw.futureSelection # None
    /\ mw.enableDirPermissionsWarning
    /\ Cardinality(sel.selectedItems) > 1
    /\ mw.enabled # AllDisabled
    /\ mw.enabled = updateActions(inputsOnly(Cur)).mw.enabled

(***************************************************************************)
(* Properties of the layouts.                                              *)
(***************************************************************************)
\* The checked state of actionShowCurrentPath and actionShowDetailsPanel.
checkedFlags(s) ==
    [showCurrentPath |-> s.mw.showCurrentPath, showDetailsPanel |-> s.mw.showDetailsPanel]

\* C31: a changeLayout() to one of the layouts stores the checked flags in
\* the record of the layout that is left, changes no other record, and then
\* checks the flags of the new layout's record; switching the flags on and
\* off changes no record; and from every state, changing to any layout and
\* back gives the flags that were checked when the layout was left.
C31_LayoutCapturedBeforeApplied ==
    /\ [] ( mw.currentLayout # None =>
              \A y \in LayoutNames :
                  LET back == changeLayout(changeLayout(Cur, "", y), "", mw.currentLayout)
                  IN  /\ back.mw.currentLayout = mw.currentLayout
                      /\ checkedFlags(back) = checkedFlags(Cur) )
    /\ [][ /\ obs'.slot = "changeLayout"
              => /\ mw.currentLayout # None
                      => mw'.layouts[mw.currentLayout] = checkedFlags(Cur)
                 /\ \A n \in LayoutNames \ {mw.currentLayout} :
                        mw'.layouts[n] = mw.layouts[n]
                 /\ mw'.currentLayout \in LayoutNames
                 /\ [showCurrentPath |-> mw'.showCurrentPath,
                     showDetailsPanel |-> mw'.showDetailsPanel]
                       = mw'.layouts[mw'.currentLayout]
           /\ obs'.slot = "toggled" => mw'.layouts = mw.layouts ]_vars

\* The user is back in L3 with the details panel shown, which L3 does not
\* show by default, while the record of L2 has it hidden.
C31_Witness ==
    /\ obs.slot = "changeLayout"
    /\ mw.currentLayout = "L3" /\ mw.showDetailsPanel
    /\ ~mw.layouts["L2"].showDetailsPanel

\* C36: the layout in use is the one that _layoutName names.
C36_CurrentLayoutIsNamed ==
    mw.currentLayout = mw.layoutName

\* C32: whenever the engine is not busy and has no request to start, the
\* ticker _updateTimer is stopped.
C32_TickerOnlyWhileScanning ==
    (~tree.isBusy /\ tree.startRequest = NoRequest) => ~mw.updateTimer

\* C33: when a handler of a notification or of a command has returned, the
\* enabled state of every action is what updateActions() would set in the
\* state that the handler left (here: for the handlers that are entered
\* while the tree is not busy and the enabled states are up to date, and
\* that return; the engine adding an item to the tree is no handler of the
\* window).
C33_EnabledMatchesStateAfterHandler ==
    [][ (/\ ~tree.isBusy
         /\ mw.enabled = enabledNow
         /\ ~(tree.items \subseteq tree'.items /\ tree'.items # tree.items)
         /\ ~mw'.terminated)
           => mw'.enabled = enabledNow' ]_vars

\* What readingFinished() and readingAborted() have in common: everything of
\* the window, the views, the selection, the tree and the history but the
\* permissions warning and its arming flag, and the future selection's age.
withoutWarning(s) ==
    [mw |-> [s.mw EXCEPT !.dirPermissionsWarning = FALSE,
                         !.enableDirPermissionsWarning = FALSE],
     view |-> s.view, sel |-> s.sel, tree |-> s.tree, hist |-> s.hist,
     fsAge |-> s.obs.fsAge, fsUrl |-> s.obs.fsUrl, log |-> s.obs.log]

\* C34: readingFinished() and readingAborted(), run from the same state, leave
\* the same enabled states, timers, future selection, current item and
\* branch, expansion and history; readingAborted() shows "Aborted" and leaves
\* the permissions warning and its arming flag as they were, and
\* readingFinished() shows "Finished" and changes the two only by showing
\* the warning and disarming it.
C34_AbortedLikeFinished ==
    \A errSubDirs \in BOOLEAN :
        LET f == readingFinished(Cur, errSubDirs)
            a == readingAborted(Cur)
        IN  /\ withoutWarning(f) = withoutWarning(a)
            /\ a.obs.shown = {"Aborted"}
            /\ f.obs.shown = {"Finished"}
            /\ a.mw.dirPermissionsWarning = mw.dirPermissionsWarning
            /\ a.mw.enableDirPermissionsWarning = mw.enableDirPermissionsWarning
            /\ \/ /\ f.mw.dirPermissionsWarning = mw.dirPermissionsWarning
                  /\ f.mw.enableDirPermissionsWarning = mw.enableDirPermissionsWarning
               \/ /\ ~mw.dirPermissionsWarning /\ f.mw.dirPermissionsWarning
                  /\ mw.enableDirPermissionsWarning
                  /\ ~f.mw.enableDirPermissionsWarning

\* The engine has stopped on a request to abort with the tree read, a future
\* selection is pending and the ticker runs; readingFinished() would show the
\* permissions warning, readingAborted() would not, and both apply the
\* future selection and stop the ticker.
C34_Witness ==
    /\ tree.isBusy /\ tree.abortRequested /\ "top" \in tree.items
    /\ mw.updateTimer /\ mw.futureSelection # None
    /\ readingFinished(engineStop(Cur), TRUE).mw.dirPermissionsWarning
    /\ ~readingAborted(engineStop(Cur)).mw.dirPermissionsWarning
    /\ ~readingAborted(engineStop(Cur)).mw.updateTimer
    /\ readingAborted(engineStop(Cur)).mw.futureSelection = None

\* C35: Refresh Selected is never enabled together with Continue Reading at
\* Mount Point or with Read Excluded Directory, neither in the enabled
\* states the actions have nor in those updateActions() would set; Continue
\* Reading at Mount Point and Read Excluded Directory are both enabled, and
\* Refresh Selected is not, once the selection has become one directory that
\* is an excluded mount point.
C35_RefreshSelectedExclusive ==
    /\ \A e \in {mw.enabled, enabledNow} :
          ~(e.refreshSelected
              /\ (e.continueReadingAtMountPoint \/ e.readExcludedDirectory))
    /\ \A i \in AllItems :
          (/\ Updated /\ sel.selectedItems = {i}
           /\ isDir(i) /\ isMountPoint(i) /\ isExcluded(i))
             => /\ mw.enabled.continueReadingAtMountPoint
                /\ mw.enabled.readExcludedDirectory
                /\ ~mw.enabled.refreshSelected

\* The excluded mount point has just become the only selected item: both
\* commands that read it are enabled, Refresh Selected is not.
C35_Witness ==
    /\ obs.slot = "selectionChanged"
    /\ sel.selectedItems = {"exmnt"}
    /\ mw.enabled.continueReadingAtMountPoint
    /\ mw.enabled.readExcludedDirectory
    /\ ~mw.enabled.refreshSelected

====
